---- MODULE Spec2Model ----
(***************************************************************************)
(* Model of the Mumblr backend (src/app.py): the POST /mumblr handler, the *)
(* process-wide configuration it reads, and the generation service it      *)
(* calls.  Text is a sequence of tokens: a character of user-supplied text *)
(* is a one-character token, a literal of the program's templates is one   *)
(* token.                                                                  *)
(***************************************************************************)
EXTENDS Integers, Sequences, FiniteSets, TLC

\* ------------------------------------------------------------------ bounds
\* Longest "recordings" array a request carries.
MaxRecs == 2
\* Requests handled at the same time under ConcSpec (gunicorn workers/threads).
NumWorkers == 2

\* -------------------------------------------------------------------- text
SP == " "
NL == "\n"

\* Python's str.strip() removes leading and trailing whitespace characters.
IsSpace(c) == c \in {SP, NL}

RECURSIVE LStrip(_)
LStrip(s) ==
    IF s # <<>> /\ IsSpace(Head(s)) THEN LStrip(Tail(s)) ELSE s

RECURSIVE RStrip(_)
RStrip(s) ==
    IF s # <<>> /\ IsSpace(s[Len(s)]) THEN RStrip(SubSeq(s, 1, Len(s) - 1)) ELSE s

\* A plausible slip: the .strip() call is left out.
StripNone(s) == s

Strip(s) == RStrip(LStrip(s))

RECURSIVE Join(_, _)
\* sep.join(parts) for a sequence of token sequences
Join(parts, sep) ==
    IF parts = <<>> THEN <<>>
    ELSE IF Len(parts) = 1 THEN parts[1]
    ELSE parts[1] \o sep \o Join(Tail(parts), sep)

Digit(d) == <<"0", "1", "2", "3", "4", "5", "6", "7", "8", "9">>[d + 1]

RECURSIVE Decimal(_)
\* the f-string rendering of a non-negative int
Decimal(n) ==
    IF n < 10 THEN <<Digit(n)>> ELSE Decimal(n \div 10) \o <<Digit(n % 10)>>

\* ------------------------------------------------------------- JSON values
Absent == [t |-> "absent", s |-> <<>>]
Null   == [t |-> "null", s |-> <<>>]
Str(s) == [t |-> "str", s |-> s]

NoList   == [t |-> "absent", items |-> <<>>]
NullList == [t |-> "null", items |-> <<>>]
List(xs) == [t |-> "list", items |-> xs]

\* str(x): a string is itself, None prints as "None"
PyStr(v) == IF v.t = "null" THEN <<"N", "o", "n", "e">> ELSE v.s

\* dict.get(key, default): the default only when the key is missing
Get(field, default) == IF field.t = "absent" THEN default ELSE field

\* ------------------------------------------------------------ request body
\* What request.get_json(force=True) finds in the request: "malformed" is a body
\* that is not JSON, "null" a falsy JSON value, "array" a non-empty JSON array,
\* "object" a JSON object with the five keys the handler reads.
MkBody(k, recs, tr, mo, se, st) ==
    [kind |-> k, recordings |-> recs, transcription |-> tr,
     mood |-> mo, section |-> se, story |-> st]

NonObject(k) == MkBody(k, NoList, Absent, Absent, Absent, Absent)

\* Elements a "recordings" array carries.
ElemValues ==
    {Str(<<>>), Str(<<SP>>), Str(<<"a", SP>>), Str(<<"a", NL, "-", SP, "b">>), Null}

RecLists ==
    {NoList, NullList}
      \cup {List(xs) : xs \in UNION {[1..n -> ElemValues] : n \in 0..MaxRecs}}

TransValues ==
    {Absent, Null, Str(<<>>), Str(<<SP, NL>>), Str(<<SP, "a", SP, "b", NL>>)}

ContextValues == {Absent, Str(<<SP>>), Str(<<SP, "a", SP>>)}

\* Requests that vary the lines, and requests that vary the context.
Bodies ==
    {NonObject("malformed"), NonObject("null"), NonObject("array")}
      \cup {MkBody("object", recs, tr, Absent, Str(<<SP, "a", SP>>), Absent) :
               recs \in RecLists, tr \in TransValues}
      \cup {MkBody("object", recs, tr, mo, se, st) :
               recs \in {NoList, List(<<Str(<<"a", SP>>), Str(<<SP>>), Null>>)},
               tr \in {Str(<<SP, "a", SP, "b", NL>>)},
               mo \in ContextValues, se \in ContextValues, st \in ContextValues}

\* The requests sent while several are in flight.
CompactBodies ==
    {NonObject("malformed"),
     MkBody("object", NoList, Absent, Absent, Absent, Absent),
     MkBody("object", List(<<Str(<<"a", SP>>)>>), Str(<<SP, NL>>), Absent, Absent, Absent),
     MkBody("object", NoList, Str(<<SP, "a", SP, "b", NL>>), Str(<<SP, "a", SP>>),
            Absent, Str(<<SP>>))}

\* -------------------------------------------------------------- exceptions
NoExc == [cls |-> "", text |-> ""]
Exc(c, t) == [cls |-> c, text |-> t]

BadRequest     == Exc("BadRequest", "400 Bad Request: Failed to decode JSON object")
NoGetAttr      == Exc("AttributeError", "'list' object has no attribute 'get'")
NotIterable    == Exc("TypeError", "'NoneType' object is not iterable")
NoStripAttr    == Exc("AttributeError", "'NoneType' object has no attribute 'strip'")
APIStatusError == Exc("APIStatusError", "Error code: 500")
APITimeoutError == Exc("APITimeoutError", "Request timed out.")

UpstreamErrors == {APIStatusError, APITimeoutError}

\* A plausible slip: the handler catches the status errors only, so a timeout
\* falls through to the generic clause.
IsOpenAIErrorStatusOnly(e) == e.cls = "APIStatusError"

\* isinstance(e, OpenAIError): the library's exceptions all derive from it
IsOpenAIError(e) == e.cls \in {"OpenAIError", "APIStatusError", "APITimeoutError"}

\* ------------------------------------------------------- gather raw lines
\* [str(x).strip() for x in items if str(x).strip()]
FilterRecordings(items) ==
    LET stripped == [i \in 1..Len(items) |-> Strip(PyStr(items[i]))]
    IN  SelectSeq(stripped, LAMBDA s : s # <<>>)

\* A plausible slip: the transcription is used whenever it is given.
RawLinesTranscriptionFirst(data) ==
    LET recs == FilterRecordings(Get(data.recordings, List(<<>>)).items)
        tr   == Strip(PyStr(Get(data.transcription, Str(<<>>))))
    IN  IF tr # <<>> THEN <<tr>> ELSE recs

\* the local "recordings" after the fallback to the transcription
RawLines(data) ==
    LET recs == FilterRecordings(Get(data.recordings, List(<<>>)).items)
        tr   == Strip(PyStr(Get(data.transcription, Str(<<>>))))
    IN  IF recs = <<>> /\ tr # <<>> THEN <<tr>> ELSE recs

\* The exception raised before the lines are gathered, NoExc when none is.
GatherRaises(b) ==
    IF b.kind = "malformed" THEN BadRequest
    ELSE IF b.kind = "array" THEN NoGetAttr
    ELSE IF b.recordings.t = "null" THEN NotIterable
    ELSE NoExc

\* ------------------------------------------------------------ user prompt
\* "\n".join(f"- {line}" for line in recordings)
MumbleBlock(lines) ==
    Join([i \in 1..Len(lines) |-> <<"-", SP>> \o lines[i]], <<NL>>)

\* str(data.get(key, "")).strip()
ContextField(field) == Strip(PyStr(Get(field, Str(<<>>))))

\* A plausible slip: the count of the array sent, not of the lines kept.
LineCountOfArray(lines, data) == Len(data.recordings.items)

\* len(recordings) as the prompt states it
LineCount(lines, data) == Len(lines)

\* A plausible slip: the "(none)" default of the story is left out.
StoryFieldNoDefault(data) == ContextField(data.story)

\* str(data.get("story", "")).strip() or "(none)"
StoryField(data) ==
    LET s == ContextField(data.story) IN IF s # <<>> THEN s ELSE <<"(none)">>

\* the f-string of the user message, stripped
UserPrompt(lines, data) ==
    Strip(<<NL, "### Raw takes", NL>>
          \o MumbleBlock(lines)
          \o <<NL, NL, "### Context", NL, "Mood:    ">> \o ContextField(data.mood)
          \o <<NL, "Section: ">> \o ContextField(data.section)
          \o <<NL, "Story:   ">> \o StoryField(data)
          \o <<NL, NL, "### Instructions", NL,
               "Finish each raw take into a polished lyric line following the Requirements.",
               NL, "Return exactly ">>
          \o Decimal(LineCount(lines, data))
          \o <<" numbered lines, nothing else.", NL>>)

\* ---------------------------------------------------------- configuration
NoSeed == [set |-> FALSE, v |-> 0]
Seed(n) == [set |-> TRUE, v |-> n]

\* The module-level names read from the environment at import, and the client.
Configs ==
    {[model |-> m, temperature |-> "0.7", seed |-> sd, client |-> "OpenAI(api_key)"] :
        m \in {"gpt-4o-mini", "gpt-4o"}, sd \in {NoSeed, Seed(42)}}

NoArgs == [model |-> "", temperature |-> "", system |-> <<>>, user |-> <<>>, seed |-> NoSeed]

\* chat_args: the seed is passed only when SEED is set
ChatArgs(cfg, prompt) ==
    [model |-> cfg.model, temperature |-> cfg.temperature,
     system |-> <<"SYSTEM_PROMPT">>, user |-> prompt, seed |-> cfg.seed]

\* ---------------------------------------------------------------- responses
NoResponse == [status |-> 0, ctype |-> "", keys |-> {}, payload |-> <<>>]

\* (jsonify({"error": message}), status, {"Content-Type": "application/json"})
JsonError(message, status) ==
    [status |-> status, ctype |-> "application/json", keys |-> {"error"}, payload |-> message]

\* (lyrics, 200, {"Content-Type": "text/plain"})
PlainText(text) ==
    [status |-> 200, ctype |-> "text/plain", keys |-> {}, payload |-> text]

NoInput == JsonError(<<"No recordings / transcription provided.">>, 400)

\* except OpenAIError as oe / except Exception as e
OnException(e) ==
    IF IsOpenAIError(e)
    THEN JsonError(<<"OpenAI API error: ", e.text>>, 502)
    ELSE JsonError(<<"Server error: ", e.text>>, 500)

\* What the generation service returns in choices[0].message.content.
ReplyContents ==
    {Null, Str(<<>>),
     Str(<<"1", ".", SP, "x">>),
     Str(<<"1", ".", SP, "x", NL, "2", ".", SP, "y", NL>>),
     Str(<<SP, "1", ".", SP, "x", NL, "2", ".", SP, "y", NL, "3", ".", SP, "z">>)}

NoReply == [kind |-> "none", content |-> Null, exc |-> NoExc]
Returned(c) == [kind |-> "ok", content |-> c, exc |-> NoExc]
Raised(e) == [kind |-> "raise", content |-> Null, exc |-> e]

\* ------------------------------------------------------------------ state
VARIABLES
    config,      \* OPENAI_MODEL, TEMPERATURE, SEED and the client, set at import
    pc,          \* where each handler invocation stands
    body,        \* the request each invocation is handling
    recordings,  \* the handler's local "recordings"
    chat_args,   \* the arguments of the invocation's call to the generation service
    reply,       \* what that call returned or raised
    exc,         \* the exception the handler caught
    response,    \* the response the handler returned
    calls,       \* calls to client.chat.completions.create made for the request
    sent         \* responses returned for the request

vars == <<config, pc, body, recordings, chat_args, reply, exc, response, calls, sent>>

Slots == DOMAIN pc

NoBody == NonObject("none")

InitSlots(W) ==
    /\ config \in Configs
    /\ pc = [r \in W |-> "idle"]
    /\ body = [r \in W |-> NoBody]
    /\ recordings = [r \in W |-> <<>>]
    /\ chat_args = [r \in W |-> NoArgs]
    /\ reply = [r \in W |-> NoReply]
    /\ exc = [r \in W |-> NoExc]
    /\ response = [r \in W |-> NoResponse]
    /\ calls = [r \in W |-> 0]
    /\ sent = [r \in W |-> 0]

\* One request at a time.
Init == InitSlots({1})

\* NumWorkers requests at a time.
InitConc == InitSlots(1..NumWorkers)

\* A request with body b reaches the handler.
Receive(r, b) ==
    /\ pc[r] = "idle"
    /\ pc' = [pc EXCEPT ![r] = "received"]
    /\ body' = [body EXCEPT ![r] = b]
    /\ UNCHANGED <<config, recordings, chat_args, reply, exc, response, calls, sent>>

\* The handler up to its call of the generation service: it decodes the body,
\* gathers the raw lines, answers 400 when there are none, builds the prompt and
\* the arguments and makes the call; an exception on the way is answered at once.
Prepare(r) ==
    /\ pc[r] = "received"
    /\ LET b == body[r]
           e == GatherRaises(b)
           lines == RawLines(b)
       IN  IF e # NoExc
           THEN /\ exc' = [exc EXCEPT ![r] = e]
                /\ response' = [response EXCEPT ![r] = OnException(e)]
                /\ pc' = [pc EXCEPT ![r] = "responded"]
                /\ sent' = [sent EXCEPT ![r] = @ + 1]
                /\ UNCHANGED <<recordings, chat_args, calls>>
           ELSE IF lines = <<>>
           THEN /\ recordings' = [recordings EXCEPT ![r] = lines]
                /\ response' = [response EXCEPT ![r] = NoInput]
                /\ pc' = [pc EXCEPT ![r] = "responded"]
                /\ sent' = [sent EXCEPT ![r] = @ + 1]
                /\ UNCHANGED <<exc, chat_args, calls>>
           ELSE /\ recordings' = [recordings EXCEPT ![r] = lines]
                /\ chat_args' = [chat_args EXCEPT ![r] = ChatArgs(config, UserPrompt(lines, b))]
                /\ calls' = [calls EXCEPT ![r] = @ + 1]
                /\ pc' = [pc EXCEPT ![r] = "calling"]
                /\ UNCHANGED <<exc, response, sent>>
    /\ UNCHANGED <<config, body, reply>>

\* The generation service answers the call with a completion.
UpstreamReturn(r, c) ==
    /\ pc[r] = "calling"
    /\ reply' = [reply EXCEPT ![r] = Returned(c)]
    /\ pc' = [pc EXCEPT ![r] = "replied"]
    /\ UNCHANGED <<config, body, recordings, chat_args, exc, response, calls, sent>>

\* The call fails: the client raises an error of the service or a timeout.
UpstreamRaise(r, e) ==
    /\ pc[r] = "calling"
    /\ reply' = [reply EXCEPT ![r] = Raised(e)]
    /\ pc' = [pc EXCEPT ![r] = "replied"]
    /\ UNCHANGED <<config, body, recordings, chat_args, exc, response, calls, sent>>

\* What the handler does to its own locals after the call: the completion's text,
\* stripped, is the response; an exception of the call, or of reading the
\* completion, is answered by the except clauses.
FinishLocals(r) ==
    /\ pc[r] = "replied"
    /\ LET e == IF reply[r].kind = "raise" THEN reply[r].exc
                ELSE IF reply[r].content.t = "null" THEN NoStripAttr
                ELSE NoExc
       IN  /\ exc' = [exc EXCEPT ![r] = e]
           /\ response' = [response EXCEPT ![r] =
                  IF e # NoExc THEN OnException(e)
                  ELSE PlainText(Strip(reply[r].content.s))]
    /\ pc' = [pc EXCEPT ![r] = "responded"]
    /\ sent' = [sent EXCEPT ![r] = @ + 1]
    /\ UNCHANGED <<body, recordings, chat_args, reply, calls>>

\* A plausible slip: a failed call is made again before the handler answers.
FinishRetry(r) ==
    IF pc[r] = "replied" /\ reply[r].kind = "raise" /\ calls[r] < 2
    THEN /\ calls' = [calls EXCEPT ![r] = @ + 1]
         /\ pc' = [pc EXCEPT ![r] = "calling"]
         /\ UNCHANGED <<config, body, recordings, chat_args, reply, exc, response, sent>>
    ELSE FinishLocals(r) /\ UNCHANGED config

\* A plausible slip: after a failed call the handler switches the module-level
\* model name to a fallback.
FinishFallbackModel(r) ==
    /\ FinishLocals(r)
    /\ config' = IF reply[r].kind = "raise"
                 THEN [config EXCEPT !.model = "gpt-4o"] ELSE config

\* The handler after the call; it assigns no module-level name.
Finish(r) == FinishLocals(r) /\ UNCHANGED config

\* The response is on the wire; the invocation's locals are gone and the worker
\* takes the next request.
Close(r) ==
    /\ pc[r] = "responded"
    /\ pc' = [pc EXCEPT ![r] = "idle"]
    /\ body' = [body EXCEPT ![r] = NoBody]
    /\ recordings' = [recordings EXCEPT ![r] = <<>>]
    /\ chat_args' = [chat_args EXCEPT ![r] = NoArgs]
    /\ reply' = [reply EXCEPT ![r] = NoReply]
    /\ exc' = [exc EXCEPT ![r] = NoExc]
    /\ response' = [response EXCEPT ![r] = NoResponse]
    /\ calls' = [calls EXCEPT ![r] = 0]
    /\ sent' = [sent EXCEPT ![r] = 0]
    /\ UNCHANGED config

Next ==
    \/ \E r \in Slots, b \in Bodies : Receive(r, b)
    \/ \E r \in Slots : Prepare(r)
    \/ \E r \in Slots, c \in ReplyContents : UpstreamReturn(r, c)
    \/ \E r \in Slots, e \in UpstreamErrors : UpstreamRaise(r, e)
    \/ \E r \in Slots : Finish(r)
    \/ \E r \in Slots : Close(r)

NextConc ==
    \/ \E r \in Slots, b \in CompactBodies : Receive(r, b)
    \/ \E r \in Slots : Prepare(r)
    \/ \E r \in Slots, c \in ReplyContents : UpstreamReturn(r, c)
    \/ \E r \in Slots, e \in UpstreamErrors : UpstreamRaise(r, e)
    \/ \E r \in Slots : Finish(r)
    \/ \E r \in Slots : Close(r)

Spec == Init /\ [][Next]_vars

ConcSpec == InitConc /\ [][NextConc]_vars

\* The workers run the handler's own steps; nothing makes the generation
\* service answer.
FairSpec ==
    /\ InitConc
    /\ [][NextConc]_vars
    /\ \A r \in 1..NumWorkers : WF_vars(Prepare(r)) /\ WF_vars(Finish(r)) /\ WF_vars(Close(r))

\* ------------------------------------------------------------- properties
Range(q) == {q[i] : i \in 1..Len(q)}

Responded(r) == pc[r] = "responded"

IsJsonError(resp, status) ==
    /\ resp.status = status
    /\ resp.ctype = "application/json"
    /\ resp.keys = {"error"}

AllSpace(q) == \A i \in 1..Len(q) : IsSpace(q[i])

\* t is q without its leading and trailing whitespace
IsTrimOf(t, q) ==
    \E i \in 1..(Len(q) + 1), j \in 0..Len(q) :
        /\ t = SubSeq(q, i, j)
        /\ \A k \in 1..(i - 1) : IsSpace(q[k])
        /\ \A k \in (j + 1)..Len(q) : IsSpace(q[k])
        /\ t = <<>> \/ (~IsSpace(t[1]) /\ ~IsSpace(t[Len(t)]))

\* the text of a JSON value as str() gives it, "" for a missing key
TextOf(v) == IF v.t = "null" THEN <<"N", "o", "n", "e">> ELSE v.s

ItemsOf(b) == IF b.recordings.t = "list" THEN b.recordings.items ELSE <<>>

\* the places of the "recordings" elements that do not trim to the empty string
KeptIdx(b) == {i \in 1..Len(ItemsOf(b)) : ~AllSpace(TextOf(ItemsOf(b)[i]))}

\* The body decodes to an object (or to a falsy value, read as {}) whose
\* "recordings" is missing or a list of strings that all trim to "", and whose
\* "transcription" is missing or a string that trims to "".
NoUsableInput(b) ==
    /\ b.kind \in {"null", "object"}
    /\ b.recordings.t \in {"absent", "list"}
    /\ \A i \in 1..Len(ItemsOf(b)) :
           ItemsOf(b)[i].t = "str" /\ AllSpace(ItemsOf(b)[i].s)
    /\ b.transcription.t \in {"absent", "str"}
    /\ AllSpace(b.transcription.s)

\* C1: a request whose recordings and transcription are both absent or empty
\* never reaches the generation service and is answered 400 with a JSON body
\* {"error": message}.
C1_NoInputIs400 ==
    \A r \in Slots :
        NoUsableInput(body[r]) =>
            /\ pc[r] \in {"received", "responded"}
            /\ Responded(r) => IsJsonError(response[r], 400)

C1_Witness ==
    \E r \in Slots :
        /\ Responded(r)
        /\ NoUsableInput(body[r])
        /\ Len(ItemsOf(body[r])) > 0
        /\ body[r].transcription.s # <<>>
        /\ response[r].status = 400

\* the number of lines of a text
TextLines(t) ==
    IF t = <<>> THEN 0 ELSE 1 + Cardinality({i \in 1..Len(t) : t[i] = NL})

\* C2: every 200 response carries exactly as many lines as the request has raw
\* lines, whatever the generation service returned.
C2_ExactlyNLines ==
    \A r \in Slots :
        Responded(r) /\ response[r].status = 200 =>
            TextLines(response[r].payload) = Len(recordings[r])

\* the place among the kept elements of the element at place i
Rank(b, i) == Cardinality({j \in KeptIdx(b) : j <= i})

\* the handler has gathered its raw lines
Gathered(r) ==
    /\ pc[r] \in {"calling", "replied", "responded"}
    /\ body[r].kind \in {"null", "object"}
    /\ body[r].recordings.t # "null"

\* C3: the raw lines are the recordings elements, stringified and trimmed, the
\* empty ones dropped and the order kept, when any is left, and then the
\* transcription changes neither the lines nor the prompt; otherwise they are
\* the trimmed transcription alone when it is not empty.
C3_RawLines ==
    \A r \in Slots :
        Gathered(r) =>
            LET b == body[r]
                L == recordings[r]
            IN  IF KeptIdx(b) # {}
                THEN /\ Len(L) = Cardinality(KeptIdx(b))
                     /\ \A i \in KeptIdx(b) :
                            IsTrimOf(L[Rank(b, i)], TextOf(ItemsOf(b)[i]))
                     /\ L = RawLines([b EXCEPT !.transcription = Absent])
                     /\ chat_args[r].user =
                            UserPrompt(L, [b EXCEPT !.transcription = Absent])
                ELSE ~AllSpace(TextOf(b.transcription)) =>
                         /\ Len(L) = 1
                         /\ IsTrimOf(L[1], TextOf(b.transcription))

C3_Witness ==
    \E r \in Slots :
        /\ pc[r] = "calling"
        /\ Cardinality(KeptIdx(body[r])) = 1
        /\ Len(ItemsOf(body[r])) = 2
        /\ ~AllSpace(body[r].transcription.s)
        /\ Len(recordings[r]) = 1

\* C4: a validated request whose call to the generation service failed, by an
\* error or a timeout, is answered 502 with a JSON body {"error": message}, and
\* a 200 is the answer only to a call that returned.
C4_UpstreamFailureIs502 ==
    \A r \in Slots :
        Responded(r) =>
            /\ reply[r].kind = "raise" => IsJsonError(response[r], 502)
            /\ response[r].status = 200 => reply[r].kind = "ok"

C4_Witness ==
    \E r \in Slots :
        /\ Responded(r)
        /\ reply[r] = Raised(APITimeoutError)
        /\ response[r].status = 502

\* C5: an unexpected error is answered 500 with a JSON body {"error": message}
\* whose message does not carry the text of the exception.
C5_GenericMessage ==
    \A r \in Slots :
        Responded(r) /\ exc[r] # NoExc /\ ~IsOpenAIError(exc[r]) =>
            /\ IsJsonError(response[r], 500)
            /\ exc[r].text \notin Range(response[r].payload)

\* the place of a template literal in a prompt
IndexOf(q, tok) == CHOOSE i \in 1..Len(q) : q[i] = tok

\* what the prompt shows after each label of its Context block
ShownMood(q) == SubSeq(q, IndexOf(q, "Mood:    ") + 1, IndexOf(q, "Section: ") - 2)
ShownSection(q) == SubSeq(q, IndexOf(q, "Section: ") + 1, IndexOf(q, "Story:   ") - 2)
ShownStory(q) == SubSeq(q, IndexOf(q, "Story:   ") + 1, IndexOf(q, "### Instructions") - 3)

\* shown is the field trimmed, or "(none)" when that is empty
NoneWhenEmpty(shown, field) ==
    IF AllSpace(TextOf(field)) THEN shown = <<"(none)">>
    ELSE IsTrimOf(shown, TextOf(field))

\* the handler has built its prompt
Prompted(r) == pc[r] \in {"calling", "replied", "responded"} /\ calls[r] > 0

\* C6 as stated: mood, section and story are each shown as "(none)" when their
\* trimmed value is empty or the key is missing, and trimmed otherwise.
C6_AllNoneWhenEmpty ==
    \A r \in Slots :
        Prompted(r) =>
            /\ NoneWhenEmpty(ShownMood(chat_args[r].user), body[r].mood)
            /\ NoneWhenEmpty(ShownSection(chat_args[r].user), body[r].section)
            /\ NoneWhenEmpty(ShownStory(chat_args[r].user), body[r].story)

\* C6 amended: the story is shown as "(none)" when its trimmed value is empty or
\* the key is missing and trimmed otherwise; mood and section are shown trimmed,
\* as nothing at all when empty or missing.
C6_StoryNoneWhenEmpty ==
    \A r \in Slots :
        Prompted(r) =>
            /\ IsTrimOf(ShownMood(chat_args[r].user), TextOf(body[r].mood))
            /\ IsTrimOf(ShownSection(chat_args[r].user), TextOf(body[r].section))
            /\ NoneWhenEmpty(ShownStory(chat_args[r].user), body[r].story)

C6_Witness ==
    \E r \in Slots :
        /\ pc[r] = "calling"
        /\ body[r].mood = Str(<<SP>>)
        /\ body[r].section = Absent
        /\ body[r].story = Absent
        /\ ShownMood(chat_args[r].user) = <<>>
        /\ ShownStory(chat_args[r].user) = <<"(none)">>

DigitValue(c) ==
    CASE c = "0" -> 0 [] c = "1" -> 1 [] c = "2" -> 2 [] c = "3" -> 3 [] c = "4" -> 4
      [] c = "5" -> 5 [] c = "6" -> 6 [] c = "7" -> 7 [] c = "8" -> 8 [] c = "9" -> 9
      [] OTHER -> -1

RECURSIVE ParseDecimal(_)
\* the number a decimal literal denotes, -1 when it is none
ParseDecimal(ds) ==
    IF ds = <<>> \/ DigitValue(ds[Len(ds)]) < 0 THEN -1
    ELSE IF Len(ds) = 1 THEN DigitValue(ds[1])
    ELSE LET hi == ParseDecimal(SubSeq(ds, 1, Len(ds) - 1))
         IN  IF hi < 0 THEN -1 ELSE 10 * hi + DigitValue(ds[Len(ds)])

\* the count the prompt's last line asks for
ShownCount(q) ==
    ParseDecimal(SubSeq(q, IndexOf(q, "Return exactly ") + 1,
                        IndexOf(q, " numbered lines, nothing else.") - 1))

\* the prompt's block of raw takes
ShownTakes(q) == SubSeq(q, IndexOf(q, "### Raw takes") + 2, IndexOf(q, "### Context") - 3)

IsPrefix(a, q) == Len(a) <= Len(q) /\ SubSeq(q, 1, Len(a)) = a

RECURSIVE ListsTakes(_, _)
\* block is one "- line" entry per line of lines, in order, a line break between
ListsTakes(block, lines) ==
    IF lines = <<>> THEN block = <<>>
    ELSE LET entry == <<"-", SP>> \o Head(lines)
         IN  /\ IsPrefix(entry, block)
             /\ IF Len(lines) = 1 THEN Len(block) = Len(entry)
                ELSE /\ Len(block) > Len(entry)
                     /\ block[Len(entry) + 1] = NL
                     /\ ListsTakes(SubSeq(block, Len(entry) + 2, Len(block)), Tail(lines))

\* the number of raw lines the request's body gives
LinesOf(b) == IF KeptIdx(b) # {} THEN Cardinality(KeptIdx(b)) ELSE 1

\* C7: the prompt of a validated request with N >= 1 raw lines asks for N lines,
\* in decimal, and lists N raw-take entries, one per raw line in input order.
C7_PromptStatesN ==
    \A r \in Slots :
        Prompted(r) =>
            /\ Len(recordings[r]) >= 1
            /\ Len(recordings[r]) = LinesOf(body[r])
            /\ ShownCount(chat_args[r].user) = Len(recordings[r])
            /\ ListsTakes(ShownTakes(chat_args[r].user), recordings[r])

C7_Witness ==
    \E r \in Slots :
        /\ pc[r] = "calling"
        /\ Len(recordings[r]) = MaxRecs
        /\ ShownCount(chat_args[r].user) = MaxRecs
        /\ \E i \in 1..Len(recordings[r]) : NL \in Range(recordings[r][i])

\* no request's response or call differs from that of a request with the same
\* body and the same reply
SameInSameOut ==
    \A r1, r2 \in Slots :
        body[r1] = body[r2] =>
            /\ Prompted(r1) /\ Prompted(r2) => chat_args[r1] = chat_args[r2]
            /\ Responded(r1) /\ Responded(r2) /\ reply[r1] = reply[r2] =>
                   response[r1] = response[r2]

\* C8: no step of any request changes the process-wide configuration, and the
\* response to a request is decided by its own body and its own call's reply.
C8_Isolated == [][config' = config]_vars /\ []SameInSameOut

C8_Witness ==
    \E r1, r2 \in Slots :
        /\ r1 # r2
        /\ Responded(r1) /\ response[r1].status = 502
        /\ Responded(r2) /\ response[r2].status = 200
        /\ body[r1] = body[r2]

C10_EventuallyAnswered ==
    \A r \in 1..NumWorkers : (pc[r] = "received") ~> (pc[r] = "responded")

====
